---------------------------- MODULE Spec2Model ----------------------------
(***************************************************************************)
(* A model of the geohash codec of quantonganh/geohash (src/geohash.go)    *)
(* and of the decode wrapper of its command (src/unnamed/part_000).        *)
(*                                                                         *)
(* Representation.                                                         *)
(*  - An unsigned machine word (uint32, uint64) is the set of the          *)
(*    positions of its 1 bits, so that the full 32 and 64 bit widths of    *)
(*    the program are kept: {} is 0, {0} is 1, 0..31 is 0xFFFFFFFF.        *)
(*  - A string is a sequence of characters, each written as a string.      *)
(*  - A coordinate on one axis is its position inside the axis range in    *)
(*    units of range/2^32: [units |-> a word in 0..2^32, frac |-> whether  *)
(*    a part of a unit remains].  units = {32}, frac = FALSE is the upper  *)
(*    end of the range (latitude 90, longitude 180).  The arithmetic of    *)
(*    the program on such a value is exact in this representation; the     *)
(*    rounding of float64 (below 1e-6 of a unit) is not modelled.          *)
(***************************************************************************)
EXTENDS Integers, Sequences, FiniteSets, TLC

VARIABLES op, arg, ret, hist, pc, r, p

vars == <<op, arg, ret, hist, pc, r, p>>

---------------------------------------------------------------------------
(* Bounds of the model *)

\* how many of ProbeBits the 32 bit input words are built from
NumProbeBits == 5

\* how many of ProbeChars the input strings of the decoder are built from
NumProbeChars == 5

\* the longest string given to ParseGeohash
MaxHashLen == 3

\* how many of CoordPieces, and how many pieces at most, the strings given
\* to ParseCoordinate are put together from
NumCoordPieces == 8

MaxCoordPieces == 3

\* how many of BoxLats, BoxLngs and BoxRadii BoundingBox is tried on
NumBoxInputs == 3

\* how many of RadiusMants, and down to which power of two, the radii of
\* EstimateLengthRequired are taken
NumRadiusMants == 6

MaxNegExp == 12

\* the largest exponent of a number of the model (1023 in float64)
FloatMaxExp == 40

\* the rounds of the loop of EstimateLengthRequired that are followed
MaxP == 200

---------------------------------------------------------------------------
(* Machine words as sets of bit positions *)

Bit(i) == {i}

And(x, y) == x \cap y

Or(x, y) == x \cup y

\* x << n in a word of w bits: the bits shifted past the top are lost
Shl(x, n, w) == {j + n : j \in x} \cap (0 .. (w - 1))

\* x >> n
Shr(x, n) == {j - n : j \in {k \in x : k >= n}}

\* uint32(x) of an integer word x: the low 32 bits
Uint32Of(x) == x \cap (0 .. 31)

\* the number a word of at most 16 bits stands for
RECURSIVE SmallValue(_)
SmallValue(x) ==
  IF x = {} THEN 0
  ELSE LET j == CHOOSE k \in x : TRUE IN 2 ^ j + SmallValue(x \ {j})

\* uint64(n) of a Go int n that is -1 or a small natural number
RECURSIVE WordOfNat(_, _)
WordOfNat(n, i) ==
  IF n = 0 THEN {}
  ELSE (IF n % 2 = 1 THEN {i} ELSE {}) \cup WordOfNat(n \div 2, i + 1)

Uint64OfInt(n) == IF n < 0 THEN 0 .. 63 ELSE WordOfNat(n, 0)

\* a - b for two words of at most 33 bits, exact when |a - b| < 65536 and
\* otherwise cut to +-Far
Far == 1000000

WordDiff(a, b) ==
  LET ha == SmallValue(Shr(a, 16))
      hb == SmallValue(Shr(b, 16))
      la == SmallValue(a \cap (0 .. 15))
      lb == SmallValue(b \cap (0 .. 15))
  IN  IF ha = hb THEN la - lb
      ELSE IF ha = hb + 1 THEN 65536 + la - lb
      ELSE IF hb = ha + 1 THEN la - lb - 65536
      ELSE IF ha > hb THEN Far ELSE 0 - Far

---------------------------------------------------------------------------
(* Constants of the program *)

alphabet ==
  << "0", "1", "2", "3", "4", "5", "6", "7", "8", "9", "b", "c", "d", "e",
     "f", "g", "h", "j", "k", "m", "n", "p", "q", "r", "s", "t", "u", "v",
     "w", "x", "y", "z" >>

maxLength == 12

\* strings.Index(alphabet, string(c)): the 0-based place of c, or -1
Index(c) ==
  IF \E i \in 1 .. Len(alphabet) : alphabet[i] = c
    THEN (CHOOSE i \in 1 .. Len(alphabet) : alphabet[i] = c) - 1
    ELSE 0 - 1

\* alphabet[chunk]: a byte of the alphabet, or the run-time panic of an index
\* out of range
AlphabetAt(chunk) ==
  IF chunk \in 0 .. (Len(alphabet) - 1) THEN alphabet[chunk + 1] ELSE "PANIC"

---------------------------------------------------------------------------
(* Encode *)

\* uint32(math.Floor(1 << 32 * value)): value is the position on the axis
\* as a part of the range, 1 << 32 * value its position in units.  Floor
\* drops the part of a unit.  For value = 1 the number 2^32 is outside
\* uint32 and the result of the conversion depends on the implementation:
\* conv = "wrap" keeps the low 32 bits (0), conv = "saturate" gives
\* 0xFFFFFFFF.
mapTo32Bits(value, conv) ==
  LET floor == value.units
  IN  IF 32 \in floor
        THEN (IF conv = "wrap" THEN Uint32Of(floor) ELSE 0 .. 31)
        ELSE floor

RECURSIVE interleaveLoop(_, _, _, _)
interleaveLoop(lat32, lng32, i, result) ==
  IF i >= 32 THEN result
  ELSE LET r1 == Or(result, Shl(And(lat32, Bit(i)), i, 64))
           r2 == Or(r1, Shl(And(lng32, Bit(i)), i + 1, 64))
       IN  interleaveLoop(lat32, lng32, i + 1, r2)

\* the two fractions taken one for the other
interleave32BitsSwapped(lat32, lng32) == interleaveLoop(lng32, lat32, 0, {})

interleave32Bits(lat32, lng32) == interleaveLoop(lat32, lng32, 0, {})

\* a chunk of 6 bits
uint64ToBase32ChunkWide(value) == SmallValue(Shr(value, 64 - 6))

\* the chunk taken at each round of uint64ToBase32: value >> (64 - 5)
uint64ToBase32Chunk(value) == SmallValue(Shr(value, 64 - 5))

RECURSIVE uint64ToBase32Loop(_, _, _)
uint64ToBase32Loop(value, i, result) ==
  IF i >= 12 THEN result
  ELSE uint64ToBase32Loop(Shl(value, 5, 64), i + 1,
                          Append(result, AlphabetAt(uint64ToBase32Chunk(value))))

uint64ToBase32(value) == uint64ToBase32Loop(value, 0, << >>)

\* the chunks uint64ToBase32 indexes the alphabet with, in order
RECURSIVE uint64ToBase32Chunks(_, _)
uint64ToBase32Chunks(value, i) ==
  IF i >= 12 THEN << >>
  ELSE << uint64ToBase32Chunk(value) >>
         \o uint64ToBase32Chunks(Shl(value, 5, 64), i + 1)

\* Encode with its locals
Encode(lat, lng, conv) ==
  LET lat32 == mapTo32Bits(lat, conv)
      long32 == mapTo32Bits(lng, conv)
      geohashInt == interleave32Bits(lat32, long32)
      geohashStr == uint64ToBase32(geohashInt)
  IN  [lat32 |-> lat32, long32 |-> long32, geohashInt |-> geohashInt,
       geohashStr |-> geohashStr]

---------------------------------------------------------------------------
(* Decode *)

RECURSIVE Base32ToUint64Loop(_, _, _)
Base32ToUint64Loop(hash, k, result) ==
  IF k > Len(hash) THEN result
  ELSE Base32ToUint64Loop(hash, k + 1,
                          Or(Shl(result, 5, 64), Uint64OfInt(Index(hash[k]))))

\* the result without its last shift
Base32ToUint64NoPad(hash) == Base32ToUint64Loop(hash, 1, {})

Base32ToUint64(hash) ==
  Shl(Base32ToUint64Loop(hash, 1, {}), 64 - 5 * maxLength, 64)

RECURSIVE DeInterleaveLoop(_, _, _, _)
DeInterleaveLoop(value, i, lat32, lng32) ==
  IF i >= 32 THEN [lat32 |-> lat32, lng32 |-> lng32]
  ELSE DeInterleaveLoop(value, i + 1,
         Or(lat32, Shl(Uint32Of(And(Shr(value, i * 2), Bit(0))), i, 32)),
         Or(lng32, Shl(Uint32Of(And(Shr(value, i * 2 + 1), Bit(0))), i, 32)))

\* the two results taken one for the other
DeInterleave64BitsSwapped(value) ==
  LET d == DeInterleaveLoop(value, 0, {}, {})
  IN  [lat32 |-> d.lng32, lng32 |-> d.lat32]

DeInterleave64Bits(value) == DeInterleaveLoop(value, 0, {}, {})

\* float64(lat32)/(1<<32)*(max-min) + min: the position lat32 units into
\* the range, no part of a unit
Decode(hash) ==
  LET value == Base32ToUint64(hash)
      d == DeInterleave64Bits(value)
  IN  [value |-> value, lat32 |-> d.lat32, lng32 |-> d.lng32,
       lat |-> [units |-> d.lat32, frac |-> FALSE],
       lng |-> [units |-> d.lng32, frac |-> FALSE]]

---------------------------------------------------------------------------
(* ParseGeohash and the decode of the command *)

\* the bytes a character takes in a Go string ("e_acute" stands for the
\* two-byte character U+00E9)
Width(c) == IF c = "e_acute" THEN 2 ELSE 1

\* the range loop of ParseGeohash from character k on, i the byte index of
\* that character
RECURSIVE ParseGeohashLoop(_, _, _)
ParseGeohashLoop(hash, k, i) ==
  IF k > Len(hash) THEN [err |-> FALSE]
  ELSE IF Index(hash[k]) = 0 - 1
         THEN [err |-> TRUE, char |-> hash[k], index |-> i]
         ELSE ParseGeohashLoop(hash, k + 1, i + Width(hash[k]))

\* a scan that passes over the first character
ParseGeohashSkipFirst(hash) ==
  IF hash = << >> THEN [err |-> FALSE] ELSE ParseGeohashLoop(hash, 2, Width(hash[1]))

ParseGeohash(hash) == ParseGeohashLoop(hash, 1, 0)

\* decode of the command: ParseGeohash, then Decode
decode(hash) ==
  LET err == ParseGeohash(hash)
  IN  IF err.err THEN [err |-> err, decoded |-> FALSE]
      ELSE LET d == Decode(hash)
           IN  [err |-> err, decoded |-> TRUE, lat |-> d.lat, lng |-> d.lng]

---------------------------------------------------------------------------
(* ParseCoordinate *)

minLat == -90

maxLat == 90

minLong == -180

maxLong == 180

\* strings.Split(s, ","): the parts between the commas, from character k on,
\* cur the part being read
RECURSIVE SplitLoop(_, _, _)
SplitLoop(s, k, cur) ==
  IF k > Len(s) THEN << cur >>
  ELSE IF s[k] = "," THEN << cur >> \o SplitLoop(s, k + 1, << >>)
  ELSE SplitLoop(s, k + 1, Append(cur, s[k]))

Split(s) == SplitLoop(s, 1, << >>)

\* strings.TrimSpace
RECURSIVE TrimSpace(_)
TrimSpace(s) ==
  IF s = << >> THEN s
  ELSE IF s[1] = " " THEN TrimSpace(Tail(s))
  ELSE IF s[Len(s)] = " " THEN TrimSpace(SubSeq(s, 1, Len(s) - 1))
  ELSE s

Digits == << "0", "1", "2", "3", "4", "5", "6", "7", "8", "9" >>

IsDigit(c) == \E i \in 1 .. 10 : Digits[i] = c

DigitValue(c) == (CHOOSE i \in 1 .. 10 : Digits[i] = c) - 1

\* integer parts from IntCap on are kept as IntCap: they are all beyond
\* every bound they are compared with
IntCap == 1000

\* the decimal digits and the point of a number, from character k on.
\* int: the integer part; frac: a digit other than 0 follows the point;
\* dot, digit: a point, a digit has been read
RECURSIVE ReadDecimal(_, _, _, _, _, _)
ReadDecimal(s, k, int, frac, dot, digit) ==
  IF k > Len(s)
    THEN (IF digit THEN [err |-> FALSE, int |-> int, frac |-> frac]
                   ELSE [err |-> TRUE])
  ELSE IF s[k] = "." /\ ~dot THEN ReadDecimal(s, k + 1, int, frac, TRUE, digit)
  ELSE IF IsDigit(s[k])
    THEN (IF dot
            THEN ReadDecimal(s, k + 1, int, frac \/ DigitValue(s[k]) # 0, dot, TRUE)
            ELSE LET n == int * 10 + DigitValue(s[k])
                 IN  ReadDecimal(s, k + 1, IF n > IntCap THEN IntCap ELSE n,
                                 frac, dot, TRUE))
  ELSE [err |-> TRUE]

\* strconv.ParseFloat(s, 64) on the characters of the model: an optional
\* sign and a decimal number, or NaN without a sign.  A value is
\* [nan, neg, int, frac]: not a number, or the number (-)(int + a part in
\* [0, 1) that is 0 unless frac)
ParseFloat(s) ==
  IF s = << "N", "a", "N" >>
    THEN [err |-> FALSE, val |-> [nan |-> TRUE, neg |-> FALSE, int |-> 0, frac |-> FALSE]]
  ELSE LET signed == s # << >> /\ s[1] \in {"-", "+"}
           body == IF signed THEN Tail(s) ELSE s
           d == ReadDecimal(body, 1, 0, FALSE, FALSE, FALSE)
       IN  IF d.err THEN [err |-> TRUE]
           ELSE [err |-> FALSE,
                 val |-> [nan |-> FALSE, neg |-> signed /\ s[1] = "-",
                          int |-> d.int, frac |-> d.frac]]

\* v < b and v > b of float64 for a value v and a whole number b: both are
\* false of NaN
Less(v, b) ==
  /\ ~v.nan
  /\ IF v.neg THEN v.int > 0 - b \/ (v.int = 0 - b /\ v.frac) ELSE v.int < b

Greater(v, b) ==
  /\ ~v.nan
  /\ IF v.neg THEN v.int < 0 - b ELSE v.int > b \/ (v.int = b /\ v.frac)

ParseCoordinate(coords) ==
  LET parts == Split(coords)
  IN  IF Len(parts) # 2 THEN [err |-> "format"]
      ELSE LET lat == ParseFloat(TrimSpace(parts[1]))
               lng == ParseFloat(TrimSpace(parts[2]))
           IN  IF lat.err THEN [err |-> "parse"]
               ELSE IF lng.err THEN [err |-> "parse"]
               ELSE IF Less(lat.val, minLat) \/ Greater(lat.val, maxLat)
                 THEN [err |-> "range"]
               ELSE IF Less(lng.val, minLong) \/ Greater(lng.val, maxLong)
                 THEN [err |-> "range"]
               ELSE [err |-> "nil", lat |-> lat.val, lng |-> lng.val]

---------------------------------------------------------------------------
(* BoundingBox.  Degrees are counted in thousandths and lengths in metres;
   a quotient is cut to a whole thousandth of a degree. *)

lenOfADegreeOfLat == 111100

lenOfADegreeOfLng == 111320

\* 1000 * math.Cos(lat/180.0*math.Pi) at the latitudes of the model
Cos(lat) ==
  CASE lat = 0 -> 1000
    [] lat \in {30000, 0 - 30000} -> 866
    [] lat \in {45000, 0 - 45000} -> 707
    [] lat \in {60000, 0 - 60000} -> 500

\* the locals of BoundingBox
BoundingBoxLocals(lat, lng, rad) ==
  LET deltaLat == (rad * 1000) \div lenOfADegreeOfLat
      kmInLongitudeDegree == (lenOfADegreeOfLng * Cos(lat)) \div 1000
      deltaLng == (rad * 1000) \div kmInLongitudeDegree
  IN  [deltaLat |-> deltaLat, deltaLng |-> deltaLng,
       minLat |-> lat - deltaLat, maxLat |-> lat + deltaLat,
       minLng |-> lng - deltaLng, maxLng |-> lng + deltaLng]

\* BoundingBox of src/geohash.go:157
BoundingBox(lat, lng, rad) ==
  LET b == BoundingBoxLocals(lat, lng, rad)
  IN  [deltaLat |-> b.deltaLat, deltaLng |-> b.deltaLng,
       result |-> << b.minLat, b.minLng, b.maxLat, b.maxLng >>]

\* BoundingBox of src/geohash.go:370
BoundingBox2(lat, lng, rad) ==
  LET b == BoundingBoxLocals(lat, lng, rad)
  IN  [deltaLat |-> b.deltaLat, deltaLng |-> b.deltaLng,
       result |-> << b.minLat, b.maxLat, b.minLng, b.maxLng >>]

---------------------------------------------------------------------------
(* EstimateLengthRequired.  A radius is [nan, inf, neg, mant, exp]: not a
   number, an infinity, or the number (-)mant * 2^exp hundredths of a
   kilometre.  Doubling is exact, as it is in float64, up to the largest
   exponent FloatMaxExp of the model, past which it gives the infinity. *)

\* mercatorMax = 20037.73 km in hundredths of a kilometre
mercatorMax == 2003773

Finite(neg, mant, exp) ==
  [nan |-> FALSE, inf |-> FALSE, neg |-> neg, mant |-> mant, exp |-> exp]

Infinity(neg) ==
  [nan |-> FALSE, inf |-> TRUE, neg |-> neg, mant |-> 0, exp |-> 0]

NaN == [nan |-> TRUE, inf |-> FALSE, neg |-> FALSE, mant |-> 0, exp |-> 0]

\* x == 0
IsZero(x) == ~x.nan /\ ~x.inf /\ x.mant = 0

\* x < mercatorMax
LessThanMercatorMax(x) ==
  IF x.nan THEN FALSE
  ELSE IF x.inf THEN x.neg
  ELSE IF x.mant = 0 THEN TRUE
  ELSE IF x.neg THEN TRUE
  ELSE IF x.exp >= 0
    THEN x.exp <= 30 /\ x.mant <= (mercatorMax - 1) \div (2 ^ x.exp)
  ELSE (0 - x.exp) > 30 \/ x.mant \div (2 ^ (0 - x.exp)) < mercatorMax

\* x * 2
Double(x) ==
  IF x.nan \/ x.inf \/ x.mant = 0 THEN x
  ELSE IF x.exp >= FloatMaxExp THEN Infinity(x.neg)
  ELSE [x EXCEPT !.exp = @ + 1]

\* p += 1
AddOne(n) == n + 1

\* p += 2
AddTwo(n) == n + 2

\* l := p / 5 and its two clamps
LengthOf(n) ==
  LET l == n \div 5
      l1 == IF l < 1 THEN 1 ELSE l
  IN  IF l1 > maxLength THEN maxLength ELSE l1

---------------------------------------------------------------------------
(* Inputs *)

ProbeBits == << 0, 1, 31, 2, 16, 30, 3, 15 >>

ProbeBitSet == {ProbeBits[i] : i \in 1 .. NumProbeBits}

\* the 32 bit words the operations are tried on
Words32 == SUBSET ProbeBitSet

\* the positions of a coordinate inside its range: any word of Words32 with
\* or without a part of a unit, and the upper end of the range
Positions ==
  {[units |-> w, frac |-> f] : w \in Words32, f \in BOOLEAN}
    \cup {[units |-> {32}, frac |-> FALSE]}

ProbeChars == << "0", "a", "z", "e_acute", "w", "i", "7", "A" >>

ProbeCharSet == {ProbeChars[i] : i \in 1 .. NumProbeChars}

\* the strings of at most MaxHashLen characters of ProbeCharSet
HashStrings ==
  UNION {[1 .. n -> ProbeCharSet] : n \in 0 .. MaxHashLen}

\* s filled with "0" to the 12 characters of a geohash
RECURSIVE PadTo(_, _)
PadTo(s, n) == IF Len(s) >= n THEN s ELSE PadTo(Append(s, "0"), n)

\* the pieces the strings given to ParseCoordinate are put together from
CoordPieces ==
  << << "," >>, << "9", "0" >>, << "N", "a", "N" >>, << " " >>,
     << "-", "9", "1" >>, << "1", "8", "1" >>, << "a", "b", "c" >>,
     << ".", "5" >>, << "1", "8", "0" >>, << "-" >> >>

\* the pieces f names, from the k-th on, one after the other
RECURSIVE ConcatPieces(_, _)
ConcatPieces(f, k) ==
  IF k > Len(f) THEN << >> ELSE CoordPieces[f[k]] \o ConcatPieces(f, k + 1)

CoordStrings ==
  {ConcatPieces(f, 1) :
     f \in UNION {[1 .. n -> 1 .. NumCoordPieces] : n \in 0 .. MaxCoordPieces}}

BoxLats == << 0, 60000, 0 - 45000, 30000, 0 - 60000 >>

BoxLngs == << 105834, 0, 0 - 179000, 180000, 45000 >>

BoxRadii == << 111100, 0, 1000, 500000, 5000 >>

BoxIndex == 1 .. NumBoxInputs

\* the mantissas of the radii: 0.01 km, 1 km, 100 km, the two numbers
\* about half of mercatorMax, mercatorMax and the numbers about it
RadiusMants == << 100, 2003773, 1, 10000, 1001886, 1001887, 2003772, 4000000 >>

Radii ==
  {Finite(neg, RadiusMants[i], 0 - e) :
     neg \in BOOLEAN, i \in 1 .. NumRadiusMants, e \in 0 .. MaxNegExp}
    \cup {Finite(FALSE, 0, 0), Finite(TRUE, 0, 0), NaN, Infinity(FALSE),
          Infinity(TRUE)}

NoCall == [op |-> "none"]

Init ==
  /\ op = "none"
  /\ arg = << >>
  /\ ret = << >>
  /\ hist = NoCall
  /\ pc = "idle"
  /\ r = 0
  /\ p = 0

Idle == op = "none"

CallInterleave ==
  /\ Idle
  /\ \E a \in Words32, b \in Words32 :
       /\ op' = "interleave32Bits"
       /\ arg' = [lat32 |-> a, lng32 |-> b]
       /\ ret' = interleave32Bits(a, b)
  /\ UNCHANGED <<hist, pc, r, p>>

\* DeInterleave64Bits on the key an earlier interleave32Bits returned
CallDeInterleave ==
  /\ op = "interleave32Bits"
  /\ op' = "DeInterleave64Bits"
  /\ arg' = ret
  /\ ret' = DeInterleave64Bits(ret)
  /\ hist' = [op |-> op, arg |-> arg, ret |-> ret]
  /\ UNCHANGED <<pc, r, p>>

CallEncode ==
  /\ Idle
  /\ \E lat \in Positions, lng \in Positions, conv \in {"wrap", "saturate"} :
       /\ op' = "Encode"
       /\ arg' = [lat |-> lat, lng |-> lng]
       /\ ret' = Encode(lat, lng, conv)
  /\ UNCHANGED <<hist, pc, r, p>>

\* Decode on the geohash an earlier Encode returned
CallDecodeEncoded ==
  /\ op = "Encode"
  /\ op' = "Decode"
  /\ arg' = ret.geohashStr
  /\ ret' = Decode(ret.geohashStr)
  /\ hist' = [op |-> op, arg |-> arg, ret |-> ret]
  /\ UNCHANGED <<pc, r, p>>

CallParseGeohash ==
  /\ Idle
  /\ \E hash \in HashStrings :
       /\ op' = "ParseGeohash"
       /\ arg' = hash
       /\ ret' = ParseGeohash(hash)
  /\ UNCHANGED <<hist, pc, r, p>>

\* the command's decode of a string of 12 characters
CallDecodeCmd ==
  /\ Idle
  /\ \E s \in HashStrings :
       /\ op' = "decode"
       /\ arg' = PadTo(s, maxLength)
       /\ ret' = decode(PadTo(s, maxLength))
  /\ UNCHANGED <<hist, pc, r, p>>

CallParseCoordinate ==
  /\ Idle
  /\ \E coords \in CoordStrings :
       /\ op' = "ParseCoordinate"
       /\ arg' = coords
       /\ ret' = ParseCoordinate(coords)
  /\ UNCHANGED <<hist, pc, r, p>>

CallBoundingBox ==
  /\ Idle
  /\ \E i \in BoxIndex, j \in BoxIndex, k \in BoxIndex :
       /\ op' = "BoundingBox"
       /\ arg' = [lat |-> BoxLats[i], lng |-> BoxLngs[j], r |-> BoxRadii[k]]
       /\ ret' = BoundingBox(BoxLats[i], BoxLngs[j], BoxRadii[k])
  /\ UNCHANGED <<hist, pc, r, p>>

CallBoundingBox2 ==
  /\ Idle
  /\ \E i \in BoxIndex, j \in BoxIndex, k \in BoxIndex :
       /\ op' = "BoundingBox2"
       /\ arg' = [lat |-> BoxLats[i], lng |-> BoxLngs[j], r |-> BoxRadii[k]]
       /\ ret' = BoundingBox2(BoxLats[i], BoxLngs[j], BoxRadii[k])
  /\ UNCHANGED <<hist, pc, r, p>>

\* EstimateLengthRequired is entered: r == 0 returns maxLength, any other
\* radius starts the loop with p = 0
EstimateEnter ==
  /\ Idle
  /\ \E r0 \in Radii :
       /\ op' = "EstimateLengthRequired"
       /\ arg' = r0
       /\ r' = r0
       /\ IF IsZero(r0)
            THEN pc' = "done" /\ ret' = maxLength
            ELSE pc' = "loop" /\ ret' = << >>
  /\ p' = 0
  /\ UNCHANGED hist

\* one round of the loop: for r < mercatorMax { r *= 2; p += 2 }
EstimateStep ==
  /\ pc = "loop"
  /\ LessThanMercatorMax(r)
  /\ p < MaxP
  /\ r' = Double(r)
  /\ p' = AddTwo(p)
  /\ UNCHANGED <<op, arg, ret, hist, pc>>

\* the loop is left and l is returned
EstimateReturn ==
  /\ pc = "loop"
  /\ ~LessThanMercatorMax(r)
  /\ pc' = "done"
  /\ ret' = LengthOf(p)
  /\ UNCHANGED <<op, arg, hist, r, p>>

Next ==
  \/ CallInterleave
  \/ CallDeInterleave
  \/ CallEncode
  \/ CallDecodeEncoded
  \/ CallParseGeohash
  \/ CallDecodeCmd
  \/ CallParseCoordinate
  \/ CallBoundingBox
  \/ CallBoundingBox2
  \/ EstimateEnter
  \/ EstimateStep
  \/ EstimateReturn

Spec == Init /\ [][Next]_vars

---------------------------------------------------------------------------
(* Properties of the codec *)

RoundTripInterleave == op = "DeInterleave64Bits" /\ hist.op = "interleave32Bits"

RoundTripEncode == op = "Decode" /\ hist.op = "Encode"

\* the position pos lies d units, 0 <= d < n, above the decoded position dec
\* (dec has no part of a unit)
AboveByLessThan(pos, dec, n) ==
  LET d == WordDiff(pos.units, dec.units) IN d >= 0 /\ d < n

\* |pos - dec| <= 1 unit
WithinOneUnit(pos, dec) ==
  LET d == WordDiff(pos.units, dec.units)
  IN  IF pos.frac THEN d \in {0 - 1, 0} ELSE d \in {0 - 1, 0, 1}

UpperEnd == [units |-> {32}, frac |-> FALSE]

LowerEnd == [units |-> {}, frac |-> FALSE]

\* C1: DeInterleave64Bits(interleave32Bits(a, b)) = (a, b) for every pair of
\* 32 bit words: bit i of a is bit 2i of the key and bit i of b is bit 2i+1.
C1_InterleaveInverse ==
  RoundTripInterleave =>
    /\ ret.lat32 = hist.arg.lat32
    /\ ret.lng32 = hist.arg.lng32
    /\ \A i \in 0 .. 31 :
         /\ (2 * i \in hist.ret) <=> (i \in hist.arg.lat32)
         /\ (2 * i + 1 \in hist.ret) <=> (i \in hist.arg.lng32)

C1_Witness ==
  /\ RoundTripInterleave
  /\ hist.arg.lat32 = {0, 31}
  /\ hist.arg.lng32 = {1}
  /\ hist.ret = {0, 3, 62}

C3_AlphabetClosure ==
  op = "Encode" =>
    /\ Len(ret.geohashStr) = 12
    /\ \A i \in 1 .. Len(ret.geohashStr) :
         \E k \in 1 .. Len(alphabet) : ret.geohashStr[i] = alphabet[k]
    /\ \A i \in 1 .. 12 :
         uint64ToBase32Chunks(ret.geohashInt, 0)[i] \in 0 .. 31

C3_Witness ==
  /\ op = "Encode"
  /\ ret.geohashInt = {63, 62, 3, 0}
  /\ ret.geohashStr = << "s", "0", "0", "0", "0", "0", "0", "0", "0", "0", "0", "0" >>

\* C4: Encode(-90, -180) and Encode(90, 180) return a geohash of 12
\* characters, and Decode of each is near its own corner (here: within the
\* 4 units the 12 characters keep, which the claim's range/2^32 is inside).
C4_CornersRoundTrip ==
  /\ (op = "Encode" /\ arg.lat \in {LowerEnd, UpperEnd}
        /\ arg.lng \in {LowerEnd, UpperEnd})
       => Len(ret.geohashStr) = 12
  /\ (RoundTripEncode /\ hist.arg.lat = LowerEnd /\ hist.arg.lng = LowerEnd)
       => /\ WordDiff(ret.lat.units, LowerEnd.units) \in 0 .. 4
          /\ WordDiff(ret.lng.units, LowerEnd.units) \in 0 .. 4
  /\ (RoundTripEncode /\ hist.arg.lat = UpperEnd /\ hist.arg.lng = UpperEnd)
       => /\ WordDiff(UpperEnd.units, ret.lat.units) \in 0 .. 4
          /\ WordDiff(UpperEnd.units, ret.lng.units) \in 0 .. 4

\* C10 as claimed: the key Encode hands to uint64ToBase32 has its 4 lowest
\* bits zero, and Base32ToUint64(uint64ToBase32(k)) = k for every such key.
C10_LowBitsZero ==
  /\ op = "Encode" => ret.geohashInt \cap (0 .. 3) = {}
  /\ RoundTripEncode => ret.value = hist.ret.geohashInt

\* C10 as amended: Base32ToUint64(uint64ToBase32(k)) is k with its 4 lowest
\* bits cleared, for every key k of the encode path (whose 4 lowest bits
\* are bits 0 and 1 of the two fractions and need not be zero).
C10_LowBitsCleared ==
  RoundTripEncode => ret.value = hist.ret.geohashInt \ (0 .. 3)

C10_Witness ==
  /\ RoundTripEncode
  /\ hist.ret.geohashInt = {0, 1, 3, 4, 63}
  /\ ret.value = {4, 63}


\* the characters of s that are not of the alphabet
Offending(s) ==
  {k \in 1 .. Len(s) : \A j \in 1 .. Len(alphabet) : alphabet[j] # s[k]}

FirstOffending(s) == CHOOSE k \in Offending(s) : \A j \in Offending(s) : k <= j

\* C5: ParseGeohash(s) returns an error if and only if s holds a character
\* that is not of the alphabet, and the error names the first such character
\* and its index in s; the command's decode fails the same way and decodes
\* nothing then.
C5_ParseGeohashFirstOffending ==
  /\ op = "ParseGeohash" =>
       /\ ret.err <=> Offending(arg) # {}
       /\ ret.err =>
            /\ ret.index = FirstOffending(arg) - 1
            /\ ret.char = arg[FirstOffending(arg)]
  /\ op = "decode" =>
       /\ ret.err.err <=> Offending(arg) # {}
       /\ ret.decoded <=> ~ret.err.err
       /\ ret.err.err => ret.err.index = FirstOffending(arg) - 1

C5_Witness ==
  /\ op = "ParseGeohash"
  /\ arg = << "z", "a", "e_acute" >>
  /\ ret = [err |-> TRUE, char |-> "a", index |-> 1]


\* a value is a number inside [lo, hi]
InRange(v, lo, hi) == ~v.nan /\ ~Less(v, lo) /\ ~Greater(v, hi)

\* C6: ParseCoordinate returns no error only when the string has exactly two
\* parts, both numbers, with lat in [-90, 90] and lng in [-180, 180], so
\* that every pair returned with a nil error is inside the ranges; it
\* returns a format error when the parts are not two.
C6_NilErrorMeansInRange ==
  op = "ParseCoordinate" =>
    /\ ret.err = "format" <=> Len(Split(arg)) # 2
    /\ ret.err = "nil" =>
         /\ InRange(ret.lat, minLat, maxLat)
         /\ InRange(ret.lng, minLong, maxLong)


\* C7: both BoundingBox functions return (minLat, maxLat, minLng, maxLng):
\* lat - dLat, lat + dLat, lng - dLng, lng + dLng, with first <= second and
\* third <= fourth for r >= 0.
C7_BoundingBoxOrder ==
  op \in {"BoundingBox", "BoundingBox2"} =>
    /\ ret.result = << arg.lat - ret.deltaLat, arg.lat + ret.deltaLat,
                       arg.lng - ret.deltaLng, arg.lng + ret.deltaLng >>
    /\ ret.result[1] <= ret.result[2]
    /\ ret.result[3] <= ret.result[4]

\* the number of times x must be doubled to reach mercatorMax
RECURSIVE StepsToMercatorMax(_)
StepsToMercatorMax(x) ==
  IF LessThanMercatorMax(x) THEN 1 + StepsToMercatorMax(Double(x)) ELSE 0

Positive(x) == ~x.nan /\ ~x.neg /\ (x.inf \/ x.mant > 0)

EstimateDone == op = "EstimateLengthRequired" /\ pc = "done"

\* C8 as claimed: EstimateLengthRequired(0) is 12, and for r > 0 it is
\* steps/5 clamped to [1, 12], steps the doublings of r up to mercatorMax.
C8_StepsOverFive ==
  EstimateDone =>
    /\ IsZero(arg) => ret = 12
    /\ Positive(arg) => ret = LengthOf(StepsToMercatorMax(arg))

\* C8 as amended: EstimateLengthRequired(0) is 12, and for r > 0 it is
\* (2 * steps)/5 clamped to [1, 12].
C8_TwiceStepsOverFive ==
  EstimateDone =>
    /\ IsZero(arg) => ret = 12
    /\ Positive(arg) => ret = LengthOf(2 * StepsToMercatorMax(arg))

C8_Witness ==
  /\ EstimateDone
  /\ arg = Finite(FALSE, 100, 0)
  /\ StepsToMercatorMax(arg) = 15
  /\ p = 30
  /\ ret = 6

\* C9: for every radius the loop of EstimateLengthRequired ends and the
\* function returns l with 1 <= l <= 12.  The loop ends only if each round
\* brings the radius on: a round that starts with r < mercatorMax and leaves
\* r as it was is followed by the same round for ever.
C9_LoopEnds ==
  /\ EstimateDone => ret \in 1 .. 12
  /\ (op = "EstimateLengthRequired" /\ pc = "loop" /\ LessThanMercatorMax(r))
       => Double(r) # r

=============================================================================
